---- MODULE Spec2Model ----
(***************************************************************************)
(* Caffe frontend (python/tvm/relay/frontend/caffe.py): the pipeline of    *)
(* from_caffe.  A net is an ordered list of layers (name, type, bottom,    *)
(* top); _rebuild_layers renames the tops of in-place layers, op_fuse      *)
(* merges BatchNorm+Scale pairs, convert_op_to_relay binds every layer's   *)
(* tops in the expression table, and from_caffe resolves the outputs.      *)
(*                                                                         *)
(* Expressions are abstracted to their provenance (the placeholder or the  *)
(* layer that produced them); blobs are abstracted to their number per     *)
(* layer; every tensor is taken to have one common static 4-D shape.       *)
(*                                                                         *)
(* The routines fuse_op, reshape, priorbox, eltwise, _parse_conv_params    *)
(* and crop are also modelled on their own, on values rather than          *)
(* provenance, each with a specification that calls it once on an input    *)
(* of its bounded domain.                                                  *)
(***************************************************************************)
EXTENDS Integers, Sequences, FiniteSets, TLC

VARIABLES
    pc,                      \* position inside from_caffe
    declared,                \* the layer list as handed to from_caffe (never changes)
    net_input,               \* predict_net.input (old caffe input declaration)
    init_layer_dict,         \* layer name -> number of blobs in the caffemodel
    predict_layer,           \* predict_net.layer: the layer objects, rewritten in place
    top_change_before_dict,  \* result of _rebuild_layers: layer name -> original top
    model_inputs,
    model_outputs,
    exp_tab,                 \* ExprTable.exprs: tensor name -> expression
    nconst,                  \* number of entries of ExprTable.params
    conv_layers,             \* OperatorConverter.predict_layer, as indices into predict_layer
    new_bn,                  \* OperatorConverter.new_bn: BatchNorm name -> merged record
    changed_layers,          \* OperatorConverter.changed_layers
    idx,                     \* position of the loop of convert_op_to_relay
    invoked,                 \* names of the layers whose conversion routine was called
    outputs,                 \* expressions of the model outputs
    new_outputs,             \* the returned output names
    err,                     \* "" or the kind of the exception that ended the translation
    err_ops,                 \* operator kinds named by the OpNotImplemented message
    call,                    \* the conversion routine applied on its own, and its inputs
    ret                      \* what that routine returned or raised

vars == <<pc, declared, net_input, init_layer_dict, predict_layer,
          top_change_before_dict, model_inputs, model_outputs, exp_tab, nconst,
          conv_layers, new_bn, changed_layers, idx, invoked, outputs,
          new_outputs, err, err_ops, call, ret>>

(***************************************************************************)
(* Bounds and the input domain                                             *)
(***************************************************************************)
MaxLayers == 3

\* names of the layers by position: layer names are pairwise distinct
LayerName == <<"a", "b", "c", "e", "f">>

\* blob names of the declared nets; "c" is also the name of a layer
Tensors == {"d", "c"}

\* as a declared top: the layer's own name
Self == "self"

Shape(t, bs, ts) == [type |-> t, bottom |-> bs, top |-> ts]

\* the declared shapes of a layer: kind and wiring
Shapes ==
    {Shape("Input", <<>>, <<"d">>)}
    \cup {Shape("ReLU", <<x>>, <<y>>) : x \in Tensors, y \in Tensors \cup {Self}}
    \cup {Shape("BatchNorm", <<"d">>, <<y>>) : y \in Tensors \cup {Self}}
    \cup {Shape("Scale", <<"d">>, <<y>>) : y \in Tensors}
    \cup {Shape("Scale", <<"c">>, <<y>>) : y \in {"c", Self}}
    \cup {Shape("Eltwise", <<"c", "d">>, <<y>>) : y \in {"c", Self}}
    \cup {Shape("Slice", <<"d">>, <<Self, "c">>)}
    \cup {Shape(k, <<"d">>, <<"c">>) : k \in {"Foo", "Bar"}}

MkNet(s) ==
    [i \in DOMAIN s |->
        [name   |-> LayerName[i],
         type   |-> s[i].type,
         bottom |-> s[i].bottom,
         top    |-> [k \in DOMAIN s[i].top |->
                        IF s[i].top[k] = Self THEN LayerName[i] ELSE s[i].top[k]]]]

NetInputs == {<<>>, <<"d">>}

(***************************************************************************)
(* Helpers                                                                 *)
(***************************************************************************)
Range(s) == {s[i] : i \in DOMAIN s}

EmptyDict == [k \in {} |-> ""]

\* dict[key] = value
DictSet(dict, key, value) == (key :> value) @@ dict

\* dict.get(key, key)
DictGet(dict, key) == IF key \in DOMAIN dict THEN dict[key] ELSE key

(***************************************************************************)
(* _rebuild_layers                                                         *)
(***************************************************************************)
\* the layer "does in-place": a single input and a single output, equal
IsInPlace(pl) ==
    /\ pl.type # "Input"
    /\ Len(pl.top) = 1
    /\ Len(pl.bottom) = 1
    /\ pl.top[1] = pl.bottom[1]

\* rewrite every bottom that is a key of the dict of changed tops
RewriteBottomsFirstOnly(bottom, changed) ==
    [k \in DOMAIN bottom |-> IF k = 1 THEN DictGet(changed, bottom[k]) ELSE bottom[k]]

RewriteBottoms(bottom, changed) ==
    [k \in DOMAIN bottom |-> DictGet(changed, bottom[k])]

\* one iteration of the loop of _rebuild_layers on layer pl; st is the pair
\* of dicts (changed_top_dict, top_change_before_dict) built so far
RebuildLayer(pl, st) ==
    IF pl.type = "Input" THEN [layer |-> pl, changed |-> st.changed, before |-> st.before]
    ELSE IF Len(pl.top) = 1 /\ Len(pl.bottom) = 1 /\ pl.top[1] = pl.bottom[1]
    THEN [layer   |-> [pl EXCEPT !.bottom = <<DictGet(st.changed, pl.bottom[1])>>,
                                 !.top = <<pl.name>>],
          changed |-> DictSet(st.changed, pl.top[1], pl.name),
          before  |-> DictSet(st.before, pl.name, pl.top[1])]
    ELSE [layer   |-> [pl EXCEPT !.bottom = RewriteBottoms(pl.bottom, st.changed)],
          changed |-> st.changed,
          before  |-> st.before]

RECURSIVE RebuildFrom(_, _, _)
RebuildFrom(i, layers, st) ==
    IF i > Len(layers) THEN [layers |-> layers, changed |-> st.changed, before |-> st.before]
    ELSE LET r == RebuildLayer(layers[i], st)
         IN  RebuildFrom(i + 1, [layers EXCEPT ![i] = r.layer],
                         [changed |-> r.changed, before |-> r.before])

\* _rebuild_layers(predict_layer): the rewritten layers, the local
\* changed_top_dict and the returned top_change_before_dict
RebuildLayers(layers) ==
    RebuildFrom(1, layers, [changed |-> EmptyDict, before |-> EmptyDict])

(***************************************************************************)
(* _get_inputs_outputs                                                     *)
(***************************************************************************)
RECURSIVE Flatten(_)
Flatten(ss) == IF ss = <<>> THEN <<>> ELSE Head(ss) \o Flatten(Tail(ss))

\* the tops of the Input layers, in order
InputTops(layers) ==
    Flatten([i \in DOMAIN layers |->
                IF layers[i].type = "Input" THEN <<layers[i].top[1]>> ELSE <<>>])

\* the bottoms of every layer can not be outputs
NotOutputs(layers) == UNION {Range(layers[i].bottom) : i \in DOMAIN layers}

\* tops, in order, of the layers that have a bottom, that no layer consumes
ModelOutputs(layers) ==
    Flatten([i \in DOMAIN layers |->
                IF Len(layers[i].bottom) > 0
                THEN SelectSeq(layers[i].top, LAMBDA t : t \notin NotOutputs(layers))
                ELSE <<>>])

(***************************************************************************)
(* ExprTable (tvm/relay/frontend/common.py)                                *)
(***************************************************************************)
VarExpr(name) == [src |-> "var", of |-> name, out |-> 0]

LayerExpr(pl, k) == [src |-> pl.type, of |-> pl.name, out |-> k]

\* set_expr(name, expr): overwrites any existing binding
SetExpr(tab, name, expr) == (name :> expr) @@ tab

RECURSIVE BindInputsFrom(_, _)
BindInputsFrom(names, tab) ==
    IF names = <<>> THEN tab
    ELSE BindInputsFrom(Tail(names), SetExpr(tab, Head(names), VarExpr(Head(names))))

(***************************************************************************)
(* check_unsupported_ops                                                   *)
(***************************************************************************)
\* self.convert_map: the routine of each operator kind; "None" is the null entry
convert_map ==
    [BatchNorm |-> "batch_norm", BN |-> "seg_bn", Concat |-> "concat",
     Convolution |-> "conv", DepthwiseConvolution |-> "conv", Crop |-> "crop",
     Deconvolution |-> "deconv", Dropout |-> "dropout", Eltwise |-> "eltwise",
     Flatten |-> "flatten", InnerProduct |-> "innerproduct", Input |-> "None",
     LRN |-> "lrn", Normalize |-> "normalize", Permute |-> "permute",
     Pooling |-> "pooling", PReLU |-> "prelu", PriorBox |-> "priorbox",
     proposal |-> "proposal", PSROIPooling |-> "psroipooling",
     Python |-> "python_layer", ReLU |-> "relu", Reshape |-> "reshape",
     Resize |-> "resize", ROIPooling |-> "roipooling", Scale |-> "scale",
     Sigmoid |-> "sigmoid", Slice |-> "_slice", Softmax |-> "softmax",
     TanH |-> "tanh", Upsample |-> "upsample", Power |-> "power"]

\* the keys of convert_map
ConvertMap == DOMAIN convert_map

UnsupportedOpsFirstOnly(layers) ==
    LET bad == {i \in DOMAIN layers : layers[i].type \notin ConvertMap}
    IN  IF bad = {} THEN {}
        ELSE {layers[CHOOSE i \in bad : \A j \in bad : i <= j].type}

\* unsupported_ops_set
UnsupportedOps(layers) ==
    {layers[i].type : i \in {j \in DOMAIN layers : layers[j].type \notin ConvertMap}}

(***************************************************************************)
(* fuse_op and op_fuse                                                     *)
(***************************************************************************)
\* predict_layer[index - 1] with a 0-based index: index -1 is the last layer
PrevIndex(i, n) == IF i = 1 THEN n ELSE i - 1

\* the exception fuse_op ends with when a blob it reads is absent ("" if none):
\* blobs[2] of the BatchNorm and blobs[0] of the Scale (bias_term is unset)
FuseOpError(ild, bn, scale) ==
    IF bn.name \notin DOMAIN ild THEN "KeyError"
    ELSE IF ild[bn.name] < 3 THEN "IndexError"
    ELSE IF scale.name \notin DOMAIN ild THEN "KeyError"
    ELSE IF ild[scale.name] < 1 THEN "IndexError"
    ELSE ""

\* the BatchNorm at index i is held back to be fused with the next layer
BatchNormBeforeScale(layers, i) ==
    /\ layers[i].type = "BatchNorm"
    /\ i # Len(layers)
    /\ layers[i + 1].type = "Scale"

\* the Scale at index i is taken as the second half of a pair
ScaleAfterBatchNorm(layers, i) ==
    /\ layers[i].type = "Scale"
    /\ layers[PrevIndex(i, Len(layers))].type = "BatchNorm"

\* the key and the value op_fuse records for a fused pair
ChangedEntry(bn, scale) ==
    [key |-> scale.name, value |-> IF Len(bn.top) = 1 THEN bn.top[1] ELSE bn.name]

\* the rewriting of pl.bottom through changed_layers
FuseRewriteBottoms(bottom, changed) ==
    [k \in DOMAIN bottom |-> DictGet(changed, bottom[k])]

\* one iteration of the loop of op_fuse, at index i; f holds the layer
\* objects and the locals new_layers, temp_layers, changed_layers
FuseLayer(i, f, ild) ==
    LET pl == f.layers[i] IN
    IF pl.type = "Input" THEN [f EXCEPT !.new_layers = Append(@, i)]
    ELSE IF BatchNormBeforeScale(f.layers, i) THEN [f EXCEPT !.temp = DictSet(@, "bn", i)]
    ELSE
      LET taken  == ScaleAfterBatchNorm(f.layers, i)
          temp1  == IF taken THEN DictSet(f.temp, "scale", i) ELSE EmptyDict
          new1   == IF pl.type \in {"BatchNorm", "Scale"} /\ ~taken
                    THEN Append(f.new_layers, i) ELSE f.new_layers
          fusing == Cardinality(DOMAIN temp1) = 2
          e      == IF fusing
                    THEN FuseOpError(ild, f.layers[temp1["bn"]], f.layers[temp1["scale"]])
                    ELSE ""
      IN
      IF e # "" THEN [f EXCEPT !.temp = temp1, !.new_layers = new1, !.err = e]
      ELSE
        LET bn       == f.layers[temp1["bn"]]
            sc       == f.layers[temp1["scale"]]
            entry    == ChangedEntry(bn, sc)
            new2     == IF fusing THEN Append(new1, temp1["bn"]) ELSE new1
            newbn2   == IF fusing
                        THEN DictSet(f.new_bn, bn.name, [bn |-> bn.name, scale |-> sc.name])
                        ELSE f.new_bn
            changed2 == IF fusing THEN DictSet(f.changed, entry.key, entry.value)
                        ELSE f.changed
        IN  [layers     |-> [f.layers EXCEPT ![i].bottom = FuseRewriteBottoms(@, changed2)],
             new_layers |-> IF pl.type \notin {"BatchNorm", "Scale"}
                            THEN Append(new2, i) ELSE new2,
             temp       |-> temp1,
             changed    |-> changed2,
             new_bn     |-> newbn2,
             err        |-> ""]

RECURSIVE FuseFrom(_, _, _)
FuseFrom(i, f, ild) ==
    IF i > Len(f.layers) \/ f.err # "" THEN f
    ELSE FuseFrom(i + 1, FuseLayer(i, f, ild), ild)

\* op_fuse on the layer objects
FuseLayers(layers, ild) ==
    FuseFrom(1, [layers |-> layers, new_layers |-> <<>>, temp |-> EmptyDict,
                 changed |-> EmptyDict, new_bn |-> EmptyDict, err |-> ""], ild)

(***************************************************************************)
(* the conversion routines of convert_map                                  *)
(***************************************************************************)
\* the names a routine looks up with get_expr, in order
Lookups(pl) ==
    IF pl.type = "Eltwise" THEN pl.bottom ELSE SubSeq(pl.bottom, 1, 1)

BatchNormSourceBlobs(pl, newbn) == "blobs"

\* batch_norm: where the mean, the variance, gamma and beta come from
BatchNormSource(pl, newbn) ==
    IF pl.name \in DOMAIN newbn THEN "new_bn" ELSE "blobs"

\* the routines that read their blobs before they look their input up
BlobsFirst == {"Convolution", "InnerProduct"}

\* the number of blobs the routine of pl indexes: blobs[0] for Convolution,
\* Deconvolution, PReLU and Scale; blobs[1] for BN, for InnerProduct (whose
\* bias_term is set unless the layer says otherwise) and for a BatchNorm that
\* was not fused
BlobsRead(pl, newbn) ==
    IF pl.type \in {"Convolution", "Deconvolution", "PReLU", "Scale"} THEN 1
    ELSE IF pl.type \in {"BN", "InnerProduct"} THEN 2
    ELSE IF pl.type = "BatchNorm" /\ BatchNormSource(pl, newbn) = "blobs" THEN 2
    ELSE 0

\* self.init_layer_dict[op.name].blobs[k]
BlobError(pl, newbn, ild) ==
    IF BlobsRead(pl, newbn) = 0 THEN ""
    ELSE IF pl.name \notin DOMAIN ild THEN "KeyError"
    ELSE IF ild[pl.name] < BlobsRead(pl, newbn) THEN "IndexError"
    ELSE ""

\* the exception the routine of pl ends with ("" if none)
RoutineError(pl, tab, newbn, ild) ==
    IF pl.type = "Eltwise" /\ Len(pl.bottom) # 2 THEN "AssertionError"
    ELSE IF pl.type \in BlobsFirst /\ BlobError(pl, newbn, ild) # ""
         THEN BlobError(pl, newbn, ild)
    ELSE IF pl.type = "Deconvolution" /\ pl.name \notin DOMAIN ild THEN "KeyError"
    ELSE IF Len(pl.bottom) = 0 THEN "IndexError"
    ELSE IF \E k \in DOMAIN Lookups(pl) : Lookups(pl)[k] \notin DOMAIN tab
         THEN "UnboundTensor"
    ELSE BlobError(pl, newbn, ild)

\* the number of constants the routine of pl creates with new_const
RoutineConsts(pl, newbn, ild) ==
    IF pl.type = "BatchNorm"
    THEN IF BatchNormSource(pl, newbn) = "new_bn" THEN 4
         ELSE IF ild[pl.name] = 2 THEN 2 ELSE 4
    ELSE IF pl.type \in {"Scale", "BN", "InnerProduct"} THEN 2
    ELSE IF pl.type \in {"Convolution", "Deconvolution"}
         THEN IF ild[pl.name] > 1 THEN 2 ELSE 1
    ELSE IF pl.type = "PReLU" THEN 1
    ELSE 0

RECURSIVE BindOutputsFrom(_, _, _)
BindOutputsFrom(k, pl, tab) ==
    IF k > Len(pl.top) THEN tab
    ELSE BindOutputsFrom(k + 1, pl, SetExpr(tab, pl.top[k], LayerExpr(pl, k)))

\* the set_expr calls of convert_op_to_relay for the layer pl
BindOutputs(pl, tab) == BindOutputsFrom(1, pl, tab)

(***************************************************************************)
(* the end of from_caffe                                                   *)
(***************************************************************************)
\* the names the model outputs are looked up under
ResolvedNames(outs, changed) == [k \in DOMAIN outs |-> DictGet(changed, outs[k])]

\* outputs = outputs[0] if len(outputs) == 1 else _expr.Tuple(outputs)
AssembleOutputs(exprs) ==
    IF Len(exprs) = 1 THEN [tuple |-> FALSE, value |-> exprs[1]]
    ELSE [tuple |-> TRUE, value |-> exprs]

\* new_outputs
RestoredNames(outs, before) == [k \in DOMAIN outs |-> DictGet(before, outs[k])]

(***************************************************************************)
(* Initial states                                                          *)
(***************************************************************************)
\* from_caffe runs as a whole: no routine is applied on its own
NoCall == [fn |-> "none"]

\* every layer has its blobs in the caffemodel
FullBlobs(layers) == [nm \in {layers[i].name : i \in DOMAIN layers} |-> 3]

Init ==
    /\ pc = "start"
    /\ \E n \in 1..MaxLayers : \E s \in [1..n -> Shapes] : declared = MkNet(s)
    /\ net_input \in NetInputs
    /\ init_layer_dict = FullBlobs(declared)
    /\ predict_layer = declared
    /\ top_change_before_dict = EmptyDict
    /\ model_inputs = <<>>
    /\ model_outputs = <<>>
    /\ exp_tab = EmptyDict
    /\ nconst = 0
    /\ conv_layers = <<>>
    /\ new_bn = EmptyDict
    /\ changed_layers = EmptyDict
    /\ idx = 0
    /\ invoked = <<>>
    /\ outputs = <<>>
    /\ new_outputs = <<>>
    /\ err = ""
    /\ err_ops = {}
    /\ call = NoCall
    /\ ret = NoCall

\* the blobs known before layer i: the net inputs and the tops of earlier layers
Produced(inputs, layers, i) ==
    Range(inputs) \cup UNION {Range(layers[j].top) : j \in 1..(i - 1)}

\* declared order is a valid dependency order
ValidOrder(inputs, layers) ==
    \A i \in DOMAIN layers : Range(layers[i].bottom) \subseteq Produced(inputs, layers, i)

\* a net that Caffe itself accepts: every bottom is a known blob and every
\* top is a new blob unless it is written in place over the bottom beside it
CaffeValid(inputs, layers) ==
    /\ ValidOrder(inputs, layers)
    /\ \A i \in DOMAIN layers : \A k \in DOMAIN layers[i].top :
          \/ k <= Len(layers[i].bottom) /\ layers[i].top[k] = layers[i].bottom[k]
          \/ layers[i].top[k] \notin Produced(inputs, layers, i)

InitValid == Init /\ CaffeValid(net_input, declared)

(***************************************************************************)
(* The steps of from_caffe                                                 *)
(***************************************************************************)
Fail(kind) ==
    /\ pc' = "error"
    /\ err' = kind

\* top_change_before_dict = _rebuild_layers(predict_layer)
Rebuild ==
    /\ pc = "start"
    /\ LET r == RebuildLayers(predict_layer) IN
         /\ predict_layer' = r.layers
         /\ top_change_before_dict' = r.before
    /\ pc' = "rebuilt"
    /\ UNCHANGED <<declared, net_input, init_layer_dict, model_inputs, model_outputs,
                   exp_tab, nconst, conv_layers, new_bn, changed_layers, idx, invoked,
                   outputs, new_outputs, err, err_ops,
                   call, ret>>

\* model_inputs, model_outputs = _get_inputs_outputs(predict_layer)
GetInputsOutputs ==
    /\ pc = "rebuilt"
    /\ IF \E i \in DOMAIN predict_layer :
             predict_layer[i].type = "Input" /\ Len(predict_layer[i].top) # 1
       THEN /\ Fail("AssertionError")
            /\ UNCHANGED <<model_inputs, model_outputs>>
       ELSE /\ model_inputs' = IF Len(net_input) # 0 THEN net_input
                               ELSE InputTops(predict_layer)
            /\ model_outputs' = ModelOutputs(predict_layer)
            /\ pc' = "io"
            /\ UNCHANGED err
    /\ UNCHANGED <<declared, net_input, init_layer_dict, predict_layer,
                   top_change_before_dict, exp_tab, nconst, conv_layers, new_bn,
                   changed_layers, idx, invoked, outputs, new_outputs, err_ops,
                   call, ret>>

\* the placeholders of the model inputs, then OperatorConverter(...)
BindInputs ==
    /\ pc = "io"
    /\ exp_tab' = BindInputsFrom(model_inputs, exp_tab)
    /\ conv_layers' = [i \in DOMAIN predict_layer |-> i]
    /\ pc' = "bound"
    /\ UNCHANGED <<declared, net_input, init_layer_dict, predict_layer,
                   top_change_before_dict, model_inputs, model_outputs, nconst, new_bn,
                   changed_layers, idx, invoked, outputs, new_outputs, err, err_ops,
                   call, ret>>

\* op_converter.check_unsupported_ops()
CheckUnsupportedOps ==
    /\ pc = "bound"
    /\ LET ops == UnsupportedOps([k \in DOMAIN conv_layers |-> predict_layer[conv_layers[k]]])
       IN  IF ops # {}
           THEN /\ Fail("UnsupportedOperator")
                /\ err_ops' = ops
           ELSE /\ pc' = "checked"
                /\ UNCHANGED <<err, err_ops>>
    /\ UNCHANGED <<declared, net_input, init_layer_dict, predict_layer,
                   top_change_before_dict, model_inputs, model_outputs, exp_tab, nconst,
                   conv_layers, new_bn, changed_layers, idx, invoked, outputs,
                   new_outputs,
                   call, ret>>

\* op_converter.op_fuse()
OpFuse ==
    /\ pc = "checked"
    /\ LET f == FuseLayers(predict_layer, init_layer_dict) IN
         /\ predict_layer' = f.layers
         /\ new_bn' = f.new_bn
         /\ IF f.err # ""
            THEN /\ Fail(f.err)
                 /\ UNCHANGED <<conv_layers, changed_layers, idx>>
            ELSE /\ conv_layers' = f.new_layers
                 /\ changed_layers' = f.changed
                 /\ idx' = 1
                 /\ pc' = "convert"
                 /\ UNCHANGED err
    /\ UNCHANGED <<declared, net_input, init_layer_dict, top_change_before_dict,
                   model_inputs, model_outputs, exp_tab, nconst, invoked, outputs,
                   new_outputs, err_ops,
                   call, ret>>

\* one iteration of the loop of convert_op_to_relay
ConvertOp ==
    /\ pc = "convert"
    /\ idx <= Len(conv_layers)
    /\ LET pl == predict_layer[conv_layers[idx]]
           e  == RoutineError(pl, exp_tab, new_bn, init_layer_dict)
       IN  IF pl.type = "Input"
           THEN /\ idx' = idx + 1
                /\ UNCHANGED <<pc, err, exp_tab, nconst, invoked>>
           ELSE /\ invoked' = Append(invoked, pl.name)
                /\ IF e # ""
                   THEN /\ Fail(e)
                        /\ UNCHANGED <<exp_tab, nconst, idx>>
                   ELSE /\ exp_tab' = BindOutputs(pl, exp_tab)
                        /\ nconst' = nconst + RoutineConsts(pl, new_bn, init_layer_dict)
                        /\ idx' = idx + 1
                        /\ UNCHANGED <<pc, err>>
    /\ UNCHANGED <<declared, net_input, init_layer_dict, predict_layer,
                   top_change_before_dict, model_inputs, model_outputs, conv_layers,
                   new_bn, changed_layers, outputs, new_outputs, err_ops,
                   call, ret>>

\* params and outputs, after the loop of convert_op_to_relay has ended
ResolveOutputs ==
    /\ pc = "convert"
    /\ idx > Len(conv_layers)
    /\ LET names == ResolvedNames(model_outputs, changed_layers) IN
         IF \E k \in DOMAIN names : names[k] \notin DOMAIN exp_tab
         THEN /\ Fail("UnboundTensor")
              /\ UNCHANGED <<outputs, new_outputs>>
         ELSE /\ outputs' = AssembleOutputs([k \in DOMAIN names |-> exp_tab[names[k]]])
              /\ new_outputs' = RestoredNames(model_outputs, top_change_before_dict)
              /\ pc' = "done"
              /\ UNCHANGED err
    /\ UNCHANGED <<declared, net_input, init_layer_dict, predict_layer,
                   top_change_before_dict, model_inputs, model_outputs, exp_tab, nconst,
                   conv_layers, new_bn, changed_layers, idx, invoked, err_ops,
                   call, ret>>

Next ==
    \/ Rebuild
    \/ GetInputsOutputs
    \/ BindInputs
    \/ CheckUnsupportedOps
    \/ OpFuse
    \/ ConvertOp
    \/ ResolveOutputs

Spec == Init /\ [][Next]_vars

SpecValid == InitValid /\ [][Next]_vars

(***************************************************************************)
(* from_caffe on a caffemodel that lacks blobs                             *)
(***************************************************************************)
\* the largest number of blobs a layer of the caffemodel carries
MaxBlobs == 3

\* the kinds whose routine reads blobs, each written in place over the tensor d
BlobKinds ==
    {"BatchNorm", "BN", "Convolution", "Deconvolution", "InnerProduct", "PReLU", "Scale"}

BlobShapes == {Shape(t, <<"d">>, <<"d">>) : t \in BlobKinds}

\* init_layer_dict of a caffemodel: some of the layers, each with some blobs
BlobDicts(layers) ==
    UNION {[D -> 0..MaxBlobs] : D \in SUBSET {layers[i].name : i \in DOMAIN layers}}

InitBlobs ==
    /\ pc = "start"
    /\ \E n \in 1..MaxLayers : \E s \in [1..n -> BlobShapes] : declared = MkNet(s)
    /\ net_input = <<"d">>
    /\ init_layer_dict \in BlobDicts(declared)
    /\ predict_layer = declared
    /\ top_change_before_dict = EmptyDict
    /\ model_inputs = <<>>
    /\ model_outputs = <<>>
    /\ exp_tab = EmptyDict
    /\ nconst = 0
    /\ conv_layers = <<>>
    /\ new_bn = EmptyDict
    /\ changed_layers = EmptyDict
    /\ idx = 0
    /\ invoked = <<>>
    /\ outputs = <<>>
    /\ new_outputs = <<>>
    /\ err = ""
    /\ err_ops = {}
    /\ call = NoCall
    /\ ret = NoCall

SpecBlobs == InitBlobs /\ [][Next]_vars

(***************************************************************************)
(* The routines of OperatorConverter applied on their own                  *)
(***************************************************************************)
pipeline_vars ==
    <<pc, declared, net_input, init_layer_dict, predict_layer,
      top_change_before_dict, model_inputs, model_outputs, exp_tab, nconst,
      conv_layers, new_bn, changed_layers, idx, invoked, outputs,
      new_outputs, err, err_ops>>

\* from_caffe is not running
Idle ==
    /\ pc = "routine"
    /\ declared = <<>>
    /\ net_input = <<>>
    /\ init_layer_dict = EmptyDict
    /\ predict_layer = <<>>
    /\ top_change_before_dict = EmptyDict
    /\ model_inputs = <<>>
    /\ model_outputs = <<>>
    /\ exp_tab = EmptyDict
    /\ nconst = 0
    /\ conv_layers = <<>>
    /\ new_bn = EmptyDict
    /\ changed_layers = EmptyDict
    /\ idx = 0
    /\ invoked = <<>>
    /\ outputs = <<>>
    /\ new_outputs = <<>>
    /\ err = ""
    /\ err_ops = {}

\* the routine fn is called and has not returned yet
Called(fn) == call.fn = fn /\ ret.fn = "none"

\* the routine returns r
Return(r) == ret' = r /\ UNCHANGED <<call, pipeline_vars>>

(***************************************************************************)
(* fuse_op: the record of a BatchNorm+Scale pair.  A blob is the sequence  *)
(* of its values; a quotient n/d is kept as the pair <<n, d>>.             *)
(***************************************************************************)
\* the largest number of channels of a blob
MaxChannels == 2

\* np.zeros(shape)
Zeros(n) == [i \in 1..n |-> 0]

\* if bn_scale: bn_scale = 1 / bn_scale
Reciprocal(bn_scale) == IF bn_scale # 0 THEN <<1, bn_scale>> ELSE <<0, 1>>

\* blob * bn_scale
Times(blob, q) == [i \in DOMAIN blob |-> <<blob[i] * q[1], q[2]>>]

\* self.new_bn[bn.name], or the exception of the blob that is not there
FuseOp(bn_blobs, eps, scale_blobs, bias_term) ==
    IF Len(bn_blobs) < 3 THEN [fn |-> "fuse_op", err |-> "IndexError", new_bn |-> <<>>]
    ELSE IF Len(scale_blobs) < (IF bias_term THEN 2 ELSE 1)
         THEN [fn |-> "fuse_op", err |-> "IndexError", new_bn |-> <<>>]
    ELSE LET bn_scale    == Reciprocal(bn_blobs[3][1])
             bn_mean     == Times(bn_blobs[1], bn_scale)
             bn_var      == Times(bn_blobs[2], bn_scale)
             scale_gamma == scale_blobs[1]
             scale_beta  == IF bias_term THEN scale_blobs[2]
                            ELSE Zeros(Len(scale_gamma))
         IN  [fn |-> "fuse_op", err |-> "",
              new_bn |-> <<bn_mean, bn_var, eps, scale_gamma, scale_beta>>]

\* blobs of n channels with small values
Blobs(n) == [1..n -> {1, 2}]

\* a BatchNorm with its mean and variance, with or without the scale count,
\* and a Scale that has the blobs its bias_term asks for
InitFuseOp ==
    /\ Idle
    /\ \E n \in 1..MaxChannels :
       \E m \in Blobs(n) : \E v \in Blobs(n) :
       \E sc \in {<<>>, <<(<<0>>)>>, <<(<<2>>)>>} :
       \E e \in {1, 2} :
       \E g \in Blobs(n) :
       \E b \in {<<>>} \cup {<<x>> : x \in Blobs(n)} :
       \E bt \in BOOLEAN :
          /\ bt => b # <<>>
          /\ call = [fn |-> "fuse_op", bn_blobs |-> <<m, v>> \o sc, eps |-> e,
                     scale_blobs |-> <<g>> \o b, bias_term |-> bt]
    /\ ret = NoCall

ApplyFuseOp ==
    /\ Called("fuse_op")
    /\ Return(FuseOp(call.bn_blobs, call.eps, call.scale_blobs, call.bias_term))

SpecFuseOp == InitFuseOp /\ [][ApplyFuseOp]_vars

(***************************************************************************)
(* reshape: the new shape, from the static shape of the input              *)
(***************************************************************************)
\* the largest rank of an input
MaxRank == 3

\* the largest number of target dims
MaxTarget == 2

RECURSIVE Product(_)
Product(seq) == IF seq = <<>> THEN 1 ELSE Head(seq) * Product(Tail(seq))

\* a bound of a python slice, counted from the end when negative and clamped
SliceBound(n, i) ==
    LET j == IF i < 0 THEN i + n ELSE i
    IN  IF j < 0 THEN 0 ELSE IF j > n THEN n ELSE j

\* seq[lo:hi]
PySlice(seq, lo, hi) ==
    SubSeq(seq, SliceBound(Len(seq), lo) + 1, SliceBound(Len(seq), hi))

\* start_axis
StartAxis(n, axis) == IF axis < 0 THEN n + axis + 1 ELSE axis

\* end_axis
EndAxis(n, start_axis, num_axes) ==
    IF num_axes # -1 THEN start_axis + num_axes ELSE n

\* center_shape, before it is reshaped
CenterShape(input_shape, start_axis, end_axis) ==
    IF end_axis = Len(input_shape)
    THEN PySlice(input_shape, start_axis, Len(input_shape))
    ELSE PySlice(input_shape, start_axis, end_axis)

\* right_shape
RightShape(input_shape, end_axis) ==
    IF end_axis = Len(input_shape) THEN <<>>
    ELSE PySlice(input_shape, end_axis, Len(input_shape))

CopyZerosAsOne(dims, center_shape) ==
    [i \in DOMAIN dims |-> IF dims[i] = 0 THEN 1 ELSE dims[i]]

\* if dim == 0: dims[idx] = center_shape[idx]   (where the index exists)
CopyZeros(dims, center_shape) ==
    [i \in DOMAIN dims |->
        IF dims[i] = 0 /\ i <= Len(center_shape) THEN center_shape[i] ELSE dims[i]]

\* np.reshape(tmp, dims).shape for tmp of size elements; <<-1>> stands for
\* the ValueError of a shape that does not fit
NpReshape(size, dims) ==
    LET unknown == {i \in DOMAIN dims : dims[i] = -1}
        known   == Product([i \in DOMAIN dims |-> IF i \in unknown THEN 1 ELSE dims[i]])
    IN  IF \E i \in DOMAIN dims : dims[i] < -1 THEN <<-1>>
        ELSE IF Cardinality(unknown) > 1 THEN <<-1>>
        ELSE IF Cardinality(unknown) = 1
             THEN IF known = 0 \/ size % known # 0 THEN <<-1>>
                  ELSE [i \in DOMAIN dims |->
                           IF i \in unknown THEN size \div known ELSE dims[i]]
        ELSE IF known # size THEN <<-1>>
        ELSE dims

\* newshape, or the exception the routine ends with
Reshape(input_shape, axis, num_axes, dims) ==
    LET start_axis   == StartAxis(Len(input_shape), axis)
        end_axis     == EndAxis(Len(input_shape), start_axis, num_axes)
        left_shape   == PySlice(input_shape, 0, start_axis)
        center_shape == CenterShape(input_shape, start_axis, end_axis)
        right_shape  == RightShape(input_shape, end_axis)
        copied       == CopyZeros(dims, center_shape)
        reshaped     == NpReshape(Product(center_shape), copied)
    IN  IF \E i \in DOMAIN dims : dims[i] = 0 /\ i > Len(center_shape)
        THEN [fn |-> "reshape", err |-> "IndexError", newshape |-> <<>>]
        ELSE IF reshaped = <<-1>>
        THEN [fn |-> "reshape", err |-> "ValueError", newshape |-> <<>>]
        ELSE [fn |-> "reshape", err |-> "",
              newshape |-> left_shape \o reshaped \o right_shape]

\* the sizes of an input dimension, and the entries of the target dims
DimValues == {2, 3, 4}

TargetValues == {-1, 0, 2, 3, 4}

\* the sequences over S of a length from lo to hi
SeqsOf(S, lo, hi) == UNION {[1..n -> S] : n \in lo..hi}

InitReshape ==
    /\ Idle
    /\ \E input_shape \in SeqsOf(DimValues, 1, MaxRank) :
       \E axis \in (-(Len(input_shape) + 1))..Len(input_shape) :
       \E num_axes \in (-1)..Len(input_shape) :
       \E dims \in SeqsOf(TargetValues, 0, MaxTarget) :
          call = [fn |-> "reshape", input_shape |-> input_shape, axis |-> axis,
                  num_axes |-> num_axes, dims |-> dims]
    /\ ret = NoCall

ApplyReshape ==
    /\ Called("reshape")
    /\ Return(Reshape(call.input_shape, call.axis, call.num_axes, call.dims))

SpecReshape == InitReshape /\ [][ApplyReshape]_vars

(***************************************************************************)
(* priorbox: the values of the constant it creates.  A box coordinate is   *)
(* kept as the label of its box; a ratio n/d is the pair <<n, d>>.         *)
(***************************************************************************)
\* the largest height and width of the feature map
MaxFeature == 2

\* the largest number of min_size and of max_size entries
MaxSizes == 2

\* the largest number of aspect_ratio entries
MaxRatios == 2

\* add_box: four values for one box
AddBox(top_data, box) == top_data \o <<box, box, box, box>>

\* ratios: 1, then every aspect ratio other than 1, each followed by its
\* reciprocal when flip is set
RECURSIVE Ratios(_, _)
Ratios(aspect_ratio, flip) ==
    IF aspect_ratio = <<>> THEN <<>>
    ELSE LET r == Head(aspect_ratio)
         IN  (IF r = 1 THEN <<>>
              ELSE IF flip THEN <<(<<r, 1>>), (<<1, r>>)>>
              ELSE <<(<<r, 1>>)>>)
             \o Ratios(Tail(aspect_ratio), flip)

\* num_priors_
NumPriors(ratios, max_size) == Len(ratios) + Len(max_size)

\* the boxes of the ratios other than 1, for the minimum size s at position hw
RatioBoxes(hw, s, ratios) ==
    Flatten([r \in DOMAIN ratios |->
                IF ratios[r][1] # ratios[r][2]
                THEN AddBox(<<>>, <<hw, s, "ratio", ratios[r]>>)
                ELSE <<>>])

\* the body of the loop over min_size at position hw
SizeBoxes(hw, min_size, max_size, ratios) ==
    Flatten([s \in DOMAIN min_size |->
                AddBox(<<>>, <<hw, s, "min">>)
                \o (IF max_size # <<>> THEN AddBox(<<>>, <<hw, s, "max">>) ELSE <<>>)
                \o RatioBoxes(hw, s, ratios)])

\* the loops over h and w: the positions of the feature map, row by row
PositionBoxes(positions, min_size, max_size, ratios) ==
    Flatten([hw \in 1..positions |-> SizeBoxes(hw, min_size, max_size, ratios)])

\* variance_: np.full(dim, variance[0]) or np.tile(variance, (int(dim / 4), 1))
VarianceBlock(dim, variance) ==
    IF Len(variance) = 1 THEN [i \in 1..dim |-> variance[1]]
    ELSE [i \in 1..((dim \div 4) * Len(variance)) |->
             variance[((i - 1) % Len(variance)) + 1]]

\* the box coordinates and the variance block appended to them
PriorBox(pre_h, pre_w, min_size, max_size, aspect_ratio, flip, variance) ==
    LET ratios == <<(<<1, 1>>)>> \o Ratios(aspect_ratio, flip)
        dim    == pre_h * pre_w * NumPriors(ratios, max_size) * 4
    IN  IF /\ pre_h * pre_w > 0
           /\ min_size # <<>>
           /\ max_size # <<>>
           /\ Len(max_size) # Len(min_size)
        THEN [fn |-> "priorbox", err |-> "AssertionError", out |-> <<>>, variance |-> <<>>]
        ELSE [fn |-> "priorbox", err |-> "",
              out |-> PositionBoxes(pre_h * pre_w, min_size, max_size, ratios),
              variance |-> VarianceBlock(dim, variance)]

InitPriorBox ==
    /\ Idle
    /\ \E pre_h \in 1..MaxFeature : \E pre_w \in 1..MaxFeature :
       \E nmin \in 1..MaxSizes : \E nmax \in 0..MaxSizes :
       \E aspect_ratio \in SeqsOf({1, 2, 3}, 0, MaxRatios) :
       \E flip \in BOOLEAN :
       \E variance \in {<<1>>, <<1, 2, 3, 4>>} :
          call = [fn |-> "priorbox", pre_h |-> pre_h, pre_w |-> pre_w,
                  min_size |-> [i \in 1..nmin |-> i],
                  max_size |-> [i \in 1..nmax |-> i + 1],
                  aspect_ratio |-> aspect_ratio, flip |-> flip, variance |-> variance]
    /\ ret = NoCall

ApplyPriorBox ==
    /\ Called("priorbox")
    /\ Return(PriorBox(call.pre_h, call.pre_w, call.min_size, call.max_size,
                       call.aspect_ratio, call.flip, call.variance))

SpecPriorBox == InitPriorBox /\ [][ApplyPriorBox]_vars

(***************************************************************************)
(* eltwise.  The table maps the bound tensor names to their static shape;  *)
(* an expression is <<"var", name>>, <<"const", value>> or <<op, lhs, rhs>>.*)
(***************************************************************************)
\* the largest number of inputs of a layer
MaxInputs == 3

\* eltwise_type_dict
EltwiseTypeDict == <<"PROD", "SUM", "MAX">>

\* what a routine leaves behind when it raises
Raised(fn, kind, msg, looked, consts) ==
    [fn |-> fn, err |-> kind, msg |-> msg, looked |-> looked, consts |-> consts,
     out |-> <<>>]

\* what a routine leaves behind when it returns out
Returned(fn, looked, consts, out) ==
    [fn |-> fn, err |-> "", msg |-> "", looked |-> looked, consts |-> consts,
     out |-> out]

\* the expression built for the operation
EltwiseOf(eltwise_type, coeff, lhs_expr, rhs_expr) ==
    IF EltwiseTypeDict[eltwise_type + 1] = "PROD"
    THEN <<"multiply", lhs_expr, rhs_expr>>
    ELSE IF EltwiseTypeDict[eltwise_type + 1] = "SUM"
    THEN IF coeff # <<>>
         THEN <<"add", <<"multiply", lhs_expr, <<"const", coeff[1]>> >>,
                       <<"multiply", rhs_expr, <<"const", coeff[2]>> >> >>
         ELSE <<"add", lhs_expr, rhs_expr>>
    ELSE <<"maximum", lhs_expr, rhs_expr>>

EltwiseLookupFirst(inputs, tab, eltwise_type, coeff) ==
    IF Len(inputs) # 2
    THEN Raised("eltwise", "AssertionError", "input tensors length should be 2",
                SubSeq(inputs, 1, 1), <<>>)
    ELSE Raised("eltwise", "AssertionError", "input tensors shape should be equal",
                inputs, <<>>)

\* the routine: names looked up, constants created, and the expression or
\* the exception it ends with
Eltwise(inputs, tab, eltwise_type, coeff) ==
    IF Len(inputs) # 2
    THEN Raised("eltwise", "AssertionError", "input tensors length should be 2",
                <<>>, <<>>)
    ELSE IF inputs[1] \notin DOMAIN tab
    THEN Raised("eltwise", "UnboundTensor", "", <<inputs[1]>>, <<>>)
    ELSE IF inputs[2] \notin DOMAIN tab
    THEN Raised("eltwise", "UnboundTensor", "", inputs, <<>>)
    ELSE IF tab[inputs[1]] # tab[inputs[2]]
    THEN Raised("eltwise", "AssertionError", "input tensors shape should be equal",
                inputs, <<>>)
    ELSE IF EltwiseTypeDict[eltwise_type + 1] = "SUM" /\ Len(coeff) = 1
    THEN Raised("eltwise", "IndexError", "", inputs, <<coeff[1]>>)
    ELSE Returned("eltwise", inputs,
                  IF EltwiseTypeDict[eltwise_type + 1] = "SUM" /\ coeff # <<>>
                  THEN <<coeff[1], coeff[2]>> ELSE <<>>,
                  EltwiseOf(eltwise_type, coeff,
                            <<"var", inputs[1]>>, <<"var", inputs[2]>>))

\* the tensors x and y are bound, each with one of two shapes; z is not
EltwiseTables == [{"x", "y"} -> {<<1, 2>>, <<1, 3>>}]

InitEltwise ==
    /\ Idle
    /\ \E inputs \in SeqsOf({"x", "y", "z"}, 1, MaxInputs) :
       \E tab \in EltwiseTables :
       \E eltwise_type \in 0..2 :
       \E coeff \in SeqsOf({2, 3}, 0, 2) :
          call = [fn |-> "eltwise", inputs |-> inputs, tab |-> tab,
                  eltwise_type |-> eltwise_type, coeff |-> coeff]
    /\ ret = NoCall

ApplyEltwise ==
    /\ Called("eltwise")
    /\ Return(Eltwise(call.inputs, call.tab, call.eltwise_type, call.coeff))

SpecEltwise == InitEltwise /\ [][ApplyEltwise]_vars

(***************************************************************************)
(* _parse_conv_params: kernel size, padding and strides                    *)
(***************************************************************************)
\* the largest length of kernel_size, pad and stride
MaxList == 2

\* nonzone = lambda val, pos, dflt: val[pos] if pos < len(val) else dflt
Nonzone(val, pos, dflt) == IF pos < Len(val) THEN val[pos + 1] ELSE dflt

KernelSizeListFirst(conv_params) ==
    IF conv_params.kernel_size # <<>>
    THEN <<Nonzone(conv_params.kernel_size, 0, 1),
           Nonzone(conv_params.kernel_size, 1, Nonzone(conv_params.kernel_size, 0, 1))>>
    ELSE <<conv_params.kernel_h, conv_params.kernel_w>>

\* params["kernel_size"]
KernelSize(conv_params) ==
    IF conv_params.kernel_h > 0 \/ conv_params.kernel_w > 0
    THEN <<conv_params.kernel_h, conv_params.kernel_w>>
    ELSE LET ksize_h == Nonzone(conv_params.kernel_size, 0, 1)
             ksize_w == Nonzone(conv_params.kernel_size, 1, ksize_h)
         IN  <<ksize_h, ksize_w>>

\* params["padding"]
Padding(conv_params) ==
    IF conv_params.pad_h > 0 \/ conv_params.pad_w > 0
    THEN <<conv_params.pad_h, conv_params.pad_w>>
    ELSE LET pad_h == Nonzone(conv_params.pad, 0, 0)
             pad_w == Nonzone(conv_params.pad, 1, pad_h)
         IN  <<pad_h, pad_w>>

\* params["strides"]
Strides(conv_params) ==
    IF conv_params.stride_h > 0 \/ conv_params.stride_w > 0
    THEN <<conv_params.stride_h, conv_params.stride_w>>
    ELSE LET stride_h == Nonzone(conv_params.stride, 0, 1)
             stride_w == Nonzone(conv_params.stride, 1, stride_h)
         IN  <<stride_h, stride_w>>

\* the dict the routine returns, as far as these three keys go
ParseConvParams(conv_params) ==
    [fn |-> "_parse_conv_params",
     params |-> ("kernel_size" :> KernelSize(conv_params))
                @@ ("padding" :> Padding(conv_params))
                @@ ("strides" :> Strides(conv_params))]

\* a per-axis attribute is unset (0) or set; a list has up to MaxList entries
AxisValues == {0, 2}

ListValues == SeqsOf({1, 3}, 0, MaxList)

InitParseConvParams ==
    /\ Idle
    /\ \E kh \in AxisValues : \E kw \in AxisValues : \E ks \in ListValues :
       \E ph \in AxisValues : \E pw \in AxisValues : \E ps \in ListValues :
       \E sh \in AxisValues : \E sw \in AxisValues : \E ss \in ListValues :
          call = [fn |-> "_parse_conv_params",
                  conv_params |-> [kernel_h |-> kh, kernel_w |-> kw, kernel_size |-> ks,
                                   pad_h |-> ph, pad_w |-> pw, pad |-> ps,
                                   stride_h |-> sh, stride_w |-> sw, stride |-> ss]]
    /\ ret = NoCall

ApplyParseConvParams ==
    /\ Called("_parse_conv_params")
    /\ Return(ParseConvParams(call.conv_params))

SpecParseConvParams == InitParseConvParams /\ [][ApplyParseConvParams]_vars

(***************************************************************************)
(* crop                                                                    *)
(***************************************************************************)
\* the largest rank of the inputs of a Crop
MaxCropRank == 2

\* [v] * n
Repeat(v, n) == [i \in 1..n |-> v]

\* the offset list does not fit the number of cropped axes
OffsetMismatch(offset, num_to_crop) ==
    LET given == IF offset = <<>> THEN Repeat(0, num_to_crop) ELSE offset
    IN  Len(given) # 1 /\ Len(given) # num_to_crop

ExpandOffsetZeros(offset, num_to_crop) == Repeat(0, num_to_crop)

\* offset, expanded to one entry per cropped axis
ExpandOffset(offset, num_to_crop) ==
    LET given == IF offset = <<>> THEN Repeat(0, num_to_crop) ELSE offset
    IN  IF Len(given) = 1 THEN Repeat(given[1], num_to_crop) ELSE given

\* the routine: names looked up and the expression or the exception it ends
\* with; the slice is <<"strided_slice", input, begin, end>>
Crop(inputs, tab, axis, offset) ==
    IF Len(inputs) # 2
    THEN Raised("crop", "AssertionError", "Need two inputs of Crop layer", <<>>, <<>>)
    ELSE IF inputs[1] \notin DOMAIN tab
    THEN Raised("crop", "UnboundTensor", "", <<inputs[1]>>, <<>>)
    ELSE IF inputs[2] \notin DOMAIN tab
    THEN Raised("crop", "UnboundTensor", "", inputs, <<>>)
    ELSE LET in_a_shape  == tab[inputs[1]]
             in_b_shape  == tab[inputs[2]]
             num_to_crop == Len(in_a_shape) - axis
             expanded    == ExpandOffset(offset, num_to_crop)
             slice_start == [i \in DOMAIN in_a_shape |->
                                IF i > axis /\ i <= axis + num_to_crop
                                THEN expanded[i - axis] ELSE 0]
             slice_end   == [i \in DOMAIN in_a_shape |->
                                IF i > axis /\ i <= axis + num_to_crop
                                THEN expanded[i - axis] + in_b_shape[i]
                                ELSE in_a_shape[i]]
         IN  IF in_a_shape = in_b_shape
             THEN Returned("crop", inputs, <<>>, <<"var", inputs[1]>>)
             ELSE IF OffsetMismatch(offset, num_to_crop)
             THEN Raised("crop", "Exception",
                         "No matching the number between axis and offset!", inputs, <<>>)
             ELSE IF \E i \in 1..num_to_crop : i + axis > Len(in_b_shape)
             THEN Raised("crop", "IndexError", "", inputs, <<>>)
             ELSE Returned("crop", inputs, <<>>,
                           <<"strided_slice", <<"var", inputs[1]>>, slice_start, slice_end>>)

\* the tensors x and y are bound, with a static shape each; z is not
CropTables == [{"x", "y"} -> SeqsOf({2, 3}, 1, MaxCropRank)]

CropInputs == {<<"x">>, <<"x", "y">>, <<"y", "x">>, <<"x", "z">>, <<"x", "y", "x">>}

InitCrop ==
    /\ Idle
    /\ \E inputs \in CropInputs :
       \E tab \in CropTables :
       \E axis \in 0..MaxCropRank :
       \E offset \in SeqsOf({0, 1}, 0, MaxCropRank + 1) :
          call = [fn |-> "crop", inputs |-> inputs, tab |-> tab,
                  axis |-> axis, offset |-> offset]
    /\ ret = NoCall

ApplyCrop ==
    /\ Called("crop")
    /\ Return(Crop(call.inputs, call.tab, call.axis, call.offset))

SpecCrop == InitCrop /\ [][ApplyCrop]_vars

(***************************************************************************)
(* python_layer.  param_str is the sequence of its tokens: the key-value   *)
(* pairs, between braces or not; a ratio n/d is the pair <<n, d>>.         *)
(***************************************************************************)
\* str.lower() on the embedded layer names of the calls
Lower ==
    [ProposalLayer |-> "proposallayer", proposallayer |-> "proposallayer",
     AnchorTargetLayer |-> "anchortargetlayer", Foo |-> "foo"]

\* the keys python_layer reads from param_dict, each with the parameter of
\* vision.proposal it sets and the value used when the key is missing
ProposalParams ==
    <<[key |-> "scales", param |-> "scales", default |-> <<4, 8, 16, 32>>],
      [key |-> "ratios", param |-> "ratios",
       default |-> <<(<<1, 2>>), (<<1, 1>>), (<<2, 1>>)>>],
      [key |-> "feat_stride", param |-> "feature_stride", default |-> 16],
      [key |-> "rpn_pre_nms_top_n", param |-> "rpn_pre_nms_top_n", default |-> 6000],
      [key |-> "rpn_post_nms_top_n", param |-> "rpn_post_nms_top_n", default |-> 300],
      [key |-> "rpn_nms_thresh", param |-> "threshold", default |-> <<7, 10>>],
      [key |-> "rpn_min_size", param |-> "rpn_min_size", default |-> 16],
      [key |-> "iou_loss", param |-> "iou_loss", default |-> FALSE]>>

\* eval of a string that starts with "{" and ends with "}": the dict
EvalDict(tokens) ==
    LET pairs == SubSeq(tokens, 2, Len(tokens) - 1)
    IN  [k \in {pairs[i][1] : i \in DOMAIN pairs} |->
            (CHOOSE i \in DOMAIN pairs : pairs[i][1] = k /\
                \A j \in DOMAIN pairs : pairs[j][1] = k => j <= i)]

\* param_dict: the string is evaluated as it is, or between braces
ParamDict(param_str) ==
    LET tokens == IF "{" \in Range(param_str) THEN param_str
                  ELSE <<"{">> \o param_str \o <<"}">>
        dict == EvalDict(tokens)
        pairs == SubSeq(tokens, 2, Len(tokens) - 1)
    IN  [k \in DOMAIN dict |-> pairs[dict[k]][2]]

\* proposal_params_tvm
ProposalParamsTvm(param_dict) ==
    [i \in DOMAIN ProposalParams |->
        <<ProposalParams[i].param,
          IF ProposalParams[i].key \in DOMAIN param_dict
          THEN param_dict[ProposalParams[i].key]
          ELSE ProposalParams[i].default>>]

\* the message of the OpNotImplemented python_layer builds
PythonMessage(curr_layer_name) == <<"Python.", curr_layer_name, " has not been supported!">>

\* the routine: names looked up and the expression or the exception it ends
\* with.  In the else branch the exception object is built and dropped, and
\* "return out" reads a local that was never assigned
PythonLayer(layer, param_str, inputs, tab) ==
    LET curr_layer_name == Lower[layer] IN
    IF curr_layer_name = "proposallayer"
    THEN LET param_dict == ParamDict(param_str)
             n == IF Len(inputs) < 3 THEN Len(inputs) ELSE 3
             unbound == {k \in 1..n : inputs[k] \notin DOMAIN tab}
         IN  IF unbound # {}
             THEN Raised("python_layer", "UnboundTensor", "",
                         SubSeq(inputs, 1, CHOOSE k \in unbound :
                                               \A j \in unbound : k <= j), <<>>)
             ELSE IF Len(inputs) < 3
             THEN Raised("python_layer", "IndexError", "", inputs, <<>>)
             ELSE Returned("python_layer", SubSeq(inputs, 1, 3), <<>>,
                           <<"vision.proposal",
                             <<(<<"var", inputs[1]>>), (<<"var", inputs[2]>>),
                               (<<"var", inputs[3]>>)>>,
                             ProposalParamsTvm(param_dict)>>)
    ELSE LET dropped == PythonMessage(curr_layer_name)
         IN  Raised("python_layer", "UnboundLocalError",
                    "local variable 'out' referenced before assignment", <<>>, <<>>)

\* the pairs of a param_str that sets the keys of K, in the order of ProposalParams
ParamPairs(K) ==
    LET given == SelectSeq(ProposalParams, LAMBDA p : p.key \in K)
    IN  [i \in DOMAIN given |-> <<given[i].key, "given">>]

\* the tensors x, y and w are bound; z is not
PythonInputs == {<<"x", "y">>, <<"x", "y", "w">>, <<"x", "z", "w">>, <<"x", "y", "w", "x">>}

InitPythonLayer ==
    /\ Idle
    /\ \E layer \in DOMAIN Lower :
       \E K \in SUBSET {ProposalParams[i].key : i \in DOMAIN ProposalParams} :
       \E braces \in BOOLEAN :
       \E inputs \in PythonInputs :
          call = [fn |-> "python_layer", layer |-> layer,
                  param_str |-> IF braces THEN <<"{">> \o ParamPairs(K) \o <<"}">>
                                ELSE ParamPairs(K),
                  inputs |-> inputs, tab |-> {"x", "y", "w"}]
    /\ ret = NoCall

ApplyPythonLayer ==
    /\ Called("python_layer")
    /\ Return(PythonLayer(call.layer, call.param_str, call.inputs,
                          [t \in call.tab |-> <<"var", t>>]))

SpecPythonLayer == InitPythonLayer /\ [][ApplyPythonLayer]_vars

(***************************************************************************)
(* The registry: check_unsupported_ops and the dispatch of                 *)
(* convert_op_to_relay on a list of layers of which only the kind matters  *)
(***************************************************************************)
\* the routines of OperatorConverter that convert a layer, each with the
\* kinds of layer it converts
RoutineKinds ==
    [seg_bn |-> {"BN"}, resize |-> {"Resize"}, upsample |-> {"Upsample"},
     python_layer |-> {"Python"}, psroipooling |-> {"PSROIPooling"},
     permute |-> {"Permute"}, power |-> {"Power"}, normalize |-> {"Normalize"},
     priorbox |-> {"PriorBox"}, flatten |-> {"Flatten"}, eltwise |-> {"Eltwise"},
     batch_norm |-> {"BatchNorm"}, scale |-> {"Scale"}, concat |-> {"Concat"},
     reshape |-> {"Reshape"}, softmax |-> {"Softmax"},
     conv |-> {"Convolution", "DepthwiseConvolution"}, pooling |-> {"Pooling"},
     lrn |-> {"LRN"}, innerproduct |-> {"InnerProduct"}, dropout |-> {"Dropout"},
     relu |-> {"ReLU"}, prelu |-> {"PReLU"}, deconv |-> {"Deconvolution"},
     _slice |-> {"Slice"}, sigmoid |-> {"Sigmoid"}, tanh |-> {"TanH"},
     crop |-> {"Crop"}, proposal |-> {"proposal"}, roipooling |-> {"ROIPooling"},
     convert_embed |-> {"Embed"}]

\* the kinds for which a conversion routine exists
ConvertibleKinds == UNION {RoutineKinds[r] : r \in DOMAIN RoutineKinds}

\* the longest list of kinds
MaxKinds == 2

\* the kinds of the lists: those with a routine, Input, and one unknown kind
ListedKinds == ConvertibleKinds \cup {"Input", "Foo"}

\* the routines convert_op_to_relay calls, in order: Input is skipped
Dispatched(layers) ==
    LET called == SelectSeq(layers, LAMBDA pl : pl.type # "Input")
    IN  [k \in DOMAIN called |-> convert_map[called[k].type]]

InitRegistry ==
    /\ Idle
    /\ \E kinds \in SeqsOf(ListedKinds, 1, MaxKinds) :
          call = [fn |-> "convert",
                  layers |-> [i \in DOMAIN kinds |-> [type |-> kinds[i]]]]
    /\ ret = NoCall

\* check_unsupported_ops on the list
CheckKinds ==
    /\ Called("convert")
    /\ LET ops == UnsupportedOps(call.layers) IN
         Return([fn |-> "check_unsupported_ops",
                 err |-> IF ops # {} THEN "UnsupportedOperator" ELSE "",
                 ops |-> ops, routines |-> <<>>])

\* the loop of convert_op_to_relay, up to the call of each routine; calling
\* the null entry ends it with TypeError
DispatchKinds ==
    /\ call.fn = "convert"
    /\ ret.fn = "check_unsupported_ops"
    /\ ret.err = ""
    /\ LET routines == Dispatched(call.layers)
           null == {k \in DOMAIN routines : routines[k] = "None"}
       IN  Return([fn |-> "convert_op_to_relay",
                   err |-> IF null # {} THEN "TypeError" ELSE "",
                   ops |-> {},
                   routines |-> IF null = {} THEN routines
                                ELSE SubSeq(routines, 1,
                                            CHOOSE k \in null : \A j \in null : k <= j)])

NextRegistry == CheckKinds \/ DispatchKinds

SpecRegistry == InitRegistry /\ [][NextRegistry]_vars

(***************************************************************************)
(* _rebuild_layers applied to a layer list, and then to its own result     *)
(***************************************************************************)
\* the longest layer list
MaxRebuilt == 2

\* names of the layers by position; the first is also the name of a blob
RebuiltName == <<"c", "a", "b", "e">>

RebuiltNet(s) ==
    [i \in DOMAIN s |->
        [name   |-> RebuiltName[i],
         type   |-> s[i].type,
         bottom |-> s[i].bottom,
         top    |-> [k \in DOMAIN s[i].top |->
                        IF s[i].top[k] = Self THEN RebuiltName[i] ELSE s[i].top[k]]]]

InitRebuild ==
    /\ Idle
    /\ \E s \in SeqsOf(Shapes, 1, MaxRebuilt) :
          call = [fn |-> "_rebuild_layers", layers |-> RebuiltNet(s)]
    /\ ret = NoCall

\* _rebuild_layers(predict_layer): the list is rewritten in place
ApplyRebuild ==
    /\ Called("_rebuild_layers")
    /\ LET r == RebuildLayers(call.layers) IN
         Return([fn |-> "_rebuild_layers", calls |-> 1, given |-> call.layers,
                 layers |-> r.layers, before |-> r.before])

\* _rebuild_layers on the list the first call has left
ApplyRebuildAgain ==
    /\ ret.fn = "_rebuild_layers"
    /\ ret.calls = 1
    /\ LET r == RebuildLayers(ret.layers) IN
         Return([fn |-> "_rebuild_layers", calls |-> 2, given |-> ret.layers,
                 layers |-> r.layers, before |-> r.before])

NextRebuild == ApplyRebuild \/ ApplyRebuildAgain

SpecRebuild == InitRebuild /\ [][NextRebuild]_vars

(***************************************************************************)
(* from_caffe called a second time with the same arguments: predict_layer  *)
(* is the caller's list, as the first call has left it                     *)
(***************************************************************************)
\* the first call has returned; the caller calls from_caffe again and keeps
\* what the first call returned
FromCaffeAgain ==
    /\ pc = "done"
    /\ call = NoCall
    /\ call' = [fn |-> "from_caffe", layers |-> predict_layer]
    /\ ret' = [fn |-> "from_caffe", outputs |-> outputs, new_outputs |-> new_outputs]
    /\ pc' = "start"
    /\ top_change_before_dict' = EmptyDict
    /\ model_inputs' = <<>>
    /\ model_outputs' = <<>>
    /\ exp_tab' = EmptyDict
    /\ nconst' = 0
    /\ conv_layers' = <<>>
    /\ new_bn' = EmptyDict
    /\ changed_layers' = EmptyDict
    /\ idx' = 0
    /\ invoked' = <<>>
    /\ outputs' = <<>>
    /\ new_outputs' = <<>>
    /\ err' = ""
    /\ err_ops' = {}
    /\ UNCHANGED <<declared, net_input, init_layer_dict, predict_layer>>

NextTwice == Next \/ FromCaffeAgain

SpecTwice == InitValid /\ [][NextTwice]_vars

(***************************************************************************)
(* Properties                                                              *)
(***************************************************************************)
\* the layers as _rebuild_layers leaves them
Normalized == RebuildLayers(declared).layers

\* _rebuild_layers has run and op_fuse has not touched the layers yet
NormalizedOnly ==
    \/ pc \in {"rebuilt", "io", "bound", "checked"}
    \/ err = "UnsupportedOperator"

\* op_fuse has run to its end
Fused == pc \in {"convert", "done"} \/ (pc = "error" /\ idx >= 1)

\* the layers handed to convert_op_to_relay
Emitted == [k \in DOMAIN conv_layers |-> predict_layer[conv_layers[k]]]

\* the Scale layers that op_fuse dropped after a BatchNorm
DroppedScales ==
    {s \in 2..Len(predict_layer) :
        /\ predict_layer[s].type = "Scale"
        /\ predict_layer[s - 1].type = "BatchNorm"
        /\ s \notin Range(conv_layers)}

\* C1: after _rebuild_layers no two layers share an output tensor name, and
\* every layer that was in-place has its own layer name as its output name.
C1_UniqueOutputs ==
    pc # "start" =>
        /\ \A i, j \in DOMAIN predict_layer :
              i # j => Range(predict_layer[i].top) \cap Range(predict_layer[j].top) = {}
        /\ \A i \in DOMAIN declared :
              IsInPlace(declared[i]) => predict_layer[i].top = <<declared[i].name>>

\* C2: for a net declared in a valid dependency order, every input of a layer
\* is bound in the expression table when its conversion routine is invoked.
C2_InputsBound ==
    (/\ ValidOrder(net_input, declared)
     /\ pc = "convert"
     /\ idx <= Len(conv_layers)
     /\ predict_layer[conv_layers[idx]].type # "Input")
    => Range(predict_layer[conv_layers[idx]].bottom) \subseteq DOMAIN exp_tab

\* the Scale at i + 1 has the output of the BatchNorm at i as its sole input
SoleInput(layers, i) == layers[i + 1].bottom = <<layers[i].top[1]>>

\* C3: op_fuse fuses a BatchNorm with the Scale right after it only when the
\* sole input of the Scale is the output of the BatchNorm; a Scale that
\* consumes another tensor is neither fused nor dropped.
C3_FuseOnlySoleInput ==
    Fused =>
        \A i \in 1..(Len(declared) - 1) :
            (/\ Normalized[i].type = "BatchNorm"
             /\ Normalized[i + 1].type = "Scale"
             /\ ~SoleInput(Normalized, i))
            => /\ Normalized[i].name \notin DOMAIN new_bn
               /\ (i + 1) \in Range(conv_layers)

\* C4: after op_fuse, changed_layers maps the output name of every dropped
\* Scale to the output name of the surviving BatchNorm, and no emitted layer
\* has an input equal to the output name of a dropped Scale.
C4_FusionRecord ==
    Fused =>
        /\ \A s \in DroppedScales :
              /\ Normalized[s].top[1] \in DOMAIN changed_layers
              /\ changed_layers[Normalized[s].top[1]] = Normalized[s - 1].top[1]
        /\ \A k \in DOMAIN Emitted : \A s \in DroppedScales :
              Normalized[s].top[1] \notin Range(Emitted[k].bottom)

\* the Scale at i comes right after a BatchNorm
FusedScale(layers, i) ==
    i > 1 /\ layers[i].type = "Scale" /\ layers[i - 1].type = "BatchNorm"

\* the indices op_fuse is to emit: all but the fused Scales, in declared order
ExpectedEmitted(layers) ==
    SelectSeq([i \in DOMAIN layers |-> i], LAMBDA i : ~FusedScale(layers, i))

\* C5: op_fuse emits every layer once and in declared order, except the
\* Scales fused into the BatchNorm right before them; a BatchNorm without a
\* Scale after it and a Scale without a BatchNorm before it (also a Scale
\* that is the first layer) are emitted as they were, up to the redirection
\* of their inputs through changed_layers.
C5_EmittedLayers ==
    Fused =>
        /\ conv_layers = ExpectedEmitted(declared)
        /\ \A i \in DOMAIN declared :
              (/\ declared[i].type \in {"BatchNorm", "Scale"}
               /\ ~FusedScale(declared, i)
               /\ ~BatchNormBeforeScale(declared, i))
              => /\ predict_layer[i].name = Normalized[i].name
                 /\ predict_layer[i].type = Normalized[i].type
                 /\ predict_layer[i].top = Normalized[i].top
                 /\ \A k \in DOMAIN Normalized[i].bottom :
                       predict_layer[i].bottom[k] \in
                           {Normalized[i].bottom[k]} \cup Range(changed_layers)

\* C6: for a net with no in-place layer and no BatchNorm right before a
\* Scale, the layers handed to conversion are the declared layers, and
\* top_change_before_dict and changed_layers are empty.
C6_NoOp ==
    (/\ Fused
     /\ \A i \in DOMAIN declared : ~IsInPlace(declared[i])
     /\ \A i \in DOMAIN declared : ~BatchNormBeforeScale(declared, i))
    => /\ Emitted = declared
       /\ top_change_before_dict = EmptyDict
       /\ changed_layers = EmptyDict

\* the in-place layers on the tensor t declared before layer j
InPlaceBefore(j, t) ==
    {i \in 1..(j - 1) : IsInPlace(declared[i]) /\ declared[i].top[1] = t}

SetMax(S) == CHOOSE m \in S : \A x \in S : x <= m

\* C7: after _rebuild_layers, every input, at any position, that named the
\* tensor of an earlier in-place layer names the most recent in-place layer
\* on that tensor before the referencing layer; Input layers are untouched.
C7_ReferencesRewritten ==
    NormalizedOnly =>
        \A j \in DOMAIN declared :
            IF declared[j].type = "Input" THEN predict_layer[j] = declared[j]
            ELSE \A k \in DOMAIN declared[j].bottom :
                    LET S == InPlaceBefore(j, declared[j].bottom[k]) IN
                    S # {} => predict_layer[j].bottom[k] = declared[SetMax(S)].name

\* the second input of a two-input layer, which two earlier in-place layers
\* had renamed in turn, names the later of the two
C7_Witness ==
    /\ pc = "rebuilt"
    /\ \E j \in DOMAIN declared :
          /\ Len(declared[j].bottom) = 2
          /\ Cardinality(InPlaceBefore(j, declared[j].bottom[2])) = 2
          /\ predict_layer[j].bottom[2] = LayerName[j - 1]
          /\ predict_layer[j].bottom[2] # declared[j].bottom[2]

\* C8: after _rebuild_layers no layer other than an Input layer has an
\* output name equal to one of its own input names.
C8_NoInPlaceLeft ==
    NormalizedOnly =>
        \A i \in DOMAIN predict_layer :
            predict_layer[i].type # "Input" =>
                Range(predict_layer[i].top) \cap Range(predict_layer[i].bottom) = {}

\* the kinds of the declared layers that have no conversion routine
DeclaredUnsupported == {declared[i].type : i \in DOMAIN declared} \ ConvertMap

C9_FailsBeforeConversion ==
    (DeclaredUnsupported # {} /\ pc \notin {"start", "rebuilt", "io", "bound"})
    => /\ pc = "error"
       /\ err = "UnsupportedOperator"
       /\ err_ops = DeclaredUnsupported
       /\ invoked = <<>>
       /\ nconst = 0
       /\ new_bn = EmptyDict
       /\ changed_layers = EmptyDict
       /\ Len(conv_layers) = Len(declared)

C10_ValidationFirst ==
    err = "UnsupportedOperator" =>
        /\ predict_layer = declared
        /\ exp_tab = EmptyDict

\* the loop of convert_op_to_relay has run to its end
ConversionEnded == idx > Len(conv_layers)

\* the output of the dropped Scale at s is the k-th model output
ScaleOutput(s, k) ==
    /\ s \in DroppedScales
    /\ model_outputs[k] \in Range(predict_layer[s].top)

\* C11: once every layer of a net in valid dependency order is converted,
\* every model output name, translated through changed_layers, is bound in
\* the expression table; the output of a Scale fused into a BatchNorm
\* resolves to the expression of that BatchNorm; and the result is the one
\* expression when there is one output and the tuple of them otherwise.
C11_OutputsResolve ==
    (ValidOrder(net_input, declared) /\ ConversionEnded) =>
        LET names == ResolvedNames(model_outputs, changed_layers) IN
          /\ pc # "error"
          /\ \A k \in DOMAIN names :
                /\ names[k] \in DOMAIN exp_tab
                /\ \A s \in DOMAIN predict_layer :
                      ScaleOutput(s, k) =>
                          exp_tab[names[k]].of = predict_layer[s - 1].name
          /\ pc = "done" =>
                /\ outputs.tuple = (Len(names) # 1)
                /\ outputs.value = IF Len(names) = 1 THEN exp_tab[names[1]]
                                   ELSE [k \in DOMAIN names |-> exp_tab[names[k]]]

\* the entries of seq at the positions in S, in order
RECURSIVE PickFrom(_, _, _)
PickFrom(k, seq, S) ==
    IF k > Len(seq) THEN <<>>
    ELSE (IF k \in S THEN <<seq[k]>> ELSE <<>>) \o PickFrom(k + 1, seq, S)

\* the model outputs under the names the net declares them with: the tops,
\* as declared, of the layers with an input, that no layer consumes
DeclaredOutputs ==
    Flatten([i \in DOMAIN declared |->
        IF Len(Normalized[i].bottom) > 0
        THEN PickFrom(1, declared[i].top,
                 {k \in DOMAIN Normalized[i].top :
                     Normalized[i].top[k] \notin NotOutputs(Normalized)})
        ELSE <<>>])

\* C12: the returned output names are one per output expression, in the
\* same order, each the tensor name as the net declares it: the name before
\* the renaming for the output of an in-place layer, and the declared output
\* name of the producing layer for any other output.
C12_DeclaredNames ==
    pc = "done" =>
        /\ Len(new_outputs) = (IF outputs.tuple THEN Len(outputs.value) ELSE 1)
        /\ new_outputs = DeclaredOutputs

\* C13: a layer of a blob-requiring kind whose blob is absent (no entry in
\* init_layer_dict, or too few blobs) makes translation fail with
\* MissingParameter, never with a key error, an index error or a generic
\* exception; so a translation that ends well had a blob for every layer.
C13_MissingParameter ==
    /\ err \notin {"KeyError", "IndexError", "Exception"}
    /\ pc = "done" =>
          \A i \in DOMAIN declared :
              /\ declared[i].name \in DOMAIN init_layer_dict
              /\ init_layer_dict[declared[i].name] >= 1

\* two quotients are the same number
SameNumber(p, q) == p[1] * q[2] = q[1] * p[2]

\* every value of blob times the quotient q
Scaled(vec, blob, q) ==
    /\ DOMAIN vec = DOMAIN blob
    /\ \A i \in DOMAIN blob : SameNumber(vec[i], <<blob[i] * q[1], q[2]>>)

\* C14: fuse_op caches (mean*r, variance*r, eps, gain, shift): r is the
\* reciprocal of the scale count when that blob is there and not zero, gain
\* is the first blob of the Scale, shift its second blob when it declares a
\* bias term and zeros of the length of gain otherwise; a BatchNorm with
\* only the mean and the variance is fused without error, both as stored.
C14_FusedRecord ==
    ret.fn = "fuse_op" =>
        /\ ret.err = ""
        /\ LET bn == call.bn_blobs
               sc == call.scale_blobs
               rec == ret.new_bn
           IN  /\ Len(bn) = 2 => Scaled(rec[1], bn[1], <<1, 1>>)
                                  /\ Scaled(rec[2], bn[2], <<1, 1>>)
               /\ (Len(bn) = 3 /\ bn[3][1] # 0) =>
                       /\ Scaled(rec[1], bn[1], <<1, bn[3][1]>>)
                       /\ Scaled(rec[2], bn[2], <<1, bn[3][1]>>)
               /\ rec[3] = call.eps
               /\ rec[4] = sc[1]
               /\ rec[5] = IF call.bias_term THEN sc[2] ELSE Zeros(Len(sc[1]))

\* Reshape with axis=1, num_axes=-1 and dims [0,-1] on an input [2,3,4]
C15_Call ==
    /\ call.fn = "reshape"
    /\ call.input_shape = <<2, 3, 4>>
    /\ call.axis = 1
    /\ call.num_axes = -1
    /\ call.dims = <<0, -1>>

\* C15 as stated: Reshape with axis=1, num_axes=-1 and target dims [0,-1] on
\* an input of static shape [2,3,4] produces the new shape [2,12].
C15_Original ==
    (C15_Call /\ ret.fn = "reshape") => ret.newshape = <<2, 12>>

\* C15, amended: Reshape with axis=1, num_axes=-1 and target dims [0,-1] on
\* an input of static shape [2,3,4] produces the new shape [2,3,4]: the
\* leading dimension is kept, the zero copies the input dimension at the
\* start axis, and -1 takes what is left.
C15_KeepsShape ==
    (C15_Call /\ ret.fn = "reshape") =>
        ret.err = "" /\ ret.newshape = <<2, 3, 4>>

\* the Reshape of C15 has returned
C15_Witness == C15_Call /\ ret.fn = "reshape" /\ ret.err = ""

\* the target dims with every zero at index i replaced by the input
\* dimension start + i
ZerosFromInput(input_shape, start, dims) ==
    [i \in DOMAIN dims |-> IF dims[i] = 0 THEN input_shape[start + i] ELSE dims[i]]

\* the final shape of the rule: the input dims before start, the target dims
\* (the entry -1, if any, standing for e), the input dims from end on
FinalShape(input_shape, start, end, target, e) ==
    SubSeq(input_shape, 1, start)
        \o [i \in DOMAIN target |-> IF target[i] = -1 THEN e ELSE target[i]]
        \o SubSeq(input_shape, end + 1, Len(input_shape))

\* C19: for a Reshape on an input of rank n, a negative axis a gives
\* start = n + a + 1, num_axes = -1 makes the range end at the last
\* dimension and otherwise the range is [start, start + num_axes); a zero at
\* index i of the target dims is replaced by input dimension start + i; the
\* final shape is the input dims before start, the resolved target dims and
\* the input dims after the range, and has the product of the input shape.
\* So whenever the rule yields a shape of that product, it is the new shape.
C19_ReshapeRule ==
    ret.fn = "reshape" =>
        LET shape  == call.input_shape
            n      == Len(shape)
            start  == IF call.axis < 0 THEN n + call.axis + 1 ELSE call.axis
            end    == IF call.num_axes = -1 THEN n ELSE start + call.num_axes
        IN  (/\ end <= n
             /\ \A i \in DOMAIN call.dims : call.dims[i] = 0 => start + i <= n)
            => LET target == ZerosFromInput(shape, start, call.dims)
               IN  \A e \in 1..Product(shape) :
                       Product(FinalShape(shape, start, end, target, e)) = Product(shape)
                       /\ Cardinality({i \in DOMAIN target : target[i] = -1}) <= 1
                       => /\ ret.err = ""
                          /\ ret.newshape = FinalShape(shape, start, end, target, e)

\* C16: for every PriorBox configuration (any number of minimum sizes, no
\* maximum sizes or as many as minimum sizes, any aspect ratios, flip on or
\* off, any feature map) the variance block has as many values as box
\* coordinates come before it, for one broadcast variance and for a tiled
\* 4-vector; one minimum size, no maximum size, aspect ratios [1], no flip
\* and a 1x1 feature map give 4 coordinates followed by 4 variance values.
C16_VarianceMatchesBoxes ==
    (/\ ret.fn = "priorbox"
     /\ Len(call.max_size) \in {0, Len(call.min_size)})
    => /\ ret.err = ""
       /\ Len(ret.variance) = Len(ret.out)
       /\ (/\ Len(call.min_size) = 1
           /\ call.max_size = <<>>
           /\ call.aspect_ratio = <<1>>
           /\ ~call.flip
           /\ call.pre_h = 1 /\ call.pre_w = 1)
          => Len(ret.out) = 4 /\ Len(ret.variance) = 4

\* both inputs of the call are bound
BothBound ==
    /\ Len(call.inputs) = 2
    /\ \A k \in 1..2 : call.inputs[k] \in DOMAIN call.tab

\* the operand k of the call, multiplied by its coefficient
Weighted(k) == <<"multiply", <<"var", call.inputs[k]>>, <<"const", call.coeff[k]>> >>

\* C17: eltwise checks in a fixed order.  An input count other than 2 fails
\* (the check on the number of inputs) before any input is looked up or any
\* shape compared; two bound inputs of unequal static shape fail (the check
\* on the shapes); otherwise the result is the product, the sum (of the
\* operands each multiplied by its coefficient, when coefficients are given)
\* or the maximum, by the operation attribute, and constants are created in
\* the case of a sum with coefficients only.
C17_EltwiseOrder ==
    ret.fn = "eltwise" =>
        /\ Len(call.inputs) # 2 =>
              /\ ret.err = "AssertionError"
              /\ ret.msg = "input tensors length should be 2"
              /\ ret.looked = <<>>
              /\ ret.consts = <<>>
        /\ (BothBound /\ call.tab[call.inputs[1]] # call.tab[call.inputs[2]]) =>
              /\ ret.err = "AssertionError"
              /\ ret.msg = "input tensors shape should be equal"
              /\ ret.consts = <<>>
        /\ (/\ BothBound
            /\ call.tab[call.inputs[1]] = call.tab[call.inputs[2]]
            /\ Len(call.coeff) \in {0, 2}) =>
              /\ ret.err = ""
              /\ call.eltwise_type = 0 =>
                    /\ ret.out[1] = "multiply"
                    /\ ret.out[2] = <<"var", call.inputs[1]>>
                    /\ ret.out[3] = <<"var", call.inputs[2]>>
                    /\ ret.consts = <<>>
              /\ (call.eltwise_type = 1 /\ call.coeff = <<>>) =>
                    /\ ret.out[1] = "add"
                    /\ ret.out[2] = <<"var", call.inputs[1]>>
                    /\ ret.out[3] = <<"var", call.inputs[2]>>
                    /\ ret.consts = <<>>
              /\ (call.eltwise_type = 1 /\ call.coeff # <<>>) =>
                    /\ ret.out[1] = "add"
                    /\ ret.out[2] = Weighted(1)
                    /\ ret.out[3] = Weighted(2)
                    /\ ret.consts = call.coeff
              /\ call.eltwise_type = 2 =>
                    /\ ret.out[1] = "maximum"
                    /\ ret.out[2] = <<"var", call.inputs[1]>>
                    /\ ret.out[3] = <<"var", call.inputs[2]>>
                    /\ ret.consts = <<>>

\* a sum of two bound inputs of one shape, with coefficients, has returned
C17_Witness ==
    /\ ret.fn = "eltwise"
    /\ ret.err = ""
    /\ call.eltwise_type = 1
    /\ call.coeff = <<2, 3>>
    /\ call.inputs = <<"x", "y">>
    /\ Len(ret.consts) = 2

\* the precedence of the claim: the per-axis pair when one of the two is
\* positive, else the first two entries of the list, the second defaulting
\* to the first
ByPrecedence(h, w, list) ==
    IF h > 0 \/ w > 0 THEN <<h, w>>
    ELSE IF Len(list) >= 2 THEN <<list[1], list[2]>>
    ELSE <<list[1], list[1]>>

\* neither the per-axis attributes nor the list is set
Unset(h, w, list) == h = 0 /\ w = 0 /\ list = <<>>

\* padding and strides by the precedence, with the defaults 0 and 1
PaddingAndStrides ==
    LET cp == call.conv_params IN
      /\ ret.params["padding"] =
            IF Unset(cp.pad_h, cp.pad_w, cp.pad) THEN <<0, 0>>
            ELSE ByPrecedence(cp.pad_h, cp.pad_w, cp.pad)
      /\ ret.params["strides"] =
            IF Unset(cp.stride_h, cp.stride_w, cp.stride) THEN <<1, 1>>
            ELSE ByPrecedence(cp.stride_h, cp.stride_w, cp.stride)

\* C18 as stated: kernel size, padding and strides are resolved by the same
\* precedence, with the default 0 for padding and 1 for strides, and kernel
\* size has no default: a layer that sets neither kernel_h/kernel_w nor
\* kernel_size gets no kernel size.
C18_Original ==
    ret.fn = "_parse_conv_params" =>
        LET cp == call.conv_params IN
          /\ PaddingAndStrides
          /\ IF Unset(cp.kernel_h, cp.kernel_w, cp.kernel_size)
             THEN "kernel_size" \notin DOMAIN ret.params
             ELSE ret.params["kernel_size"] =
                      ByPrecedence(cp.kernel_h, cp.kernel_w, cp.kernel_size)

\* C18, amended: kernel size, padding and strides are resolved by the same
\* precedence, with the default 0 for padding and 1 for strides and for
\* kernel size: a layer that sets neither kernel_h/kernel_w nor kernel_size
\* gets the kernel size (1, 1).
C18_DefaultKernel ==
    ret.fn = "_parse_conv_params" =>
        LET cp == call.conv_params IN
          /\ PaddingAndStrides
          /\ ret.params["kernel_size"] =
                IF Unset(cp.kernel_h, cp.kernel_w, cp.kernel_size) THEN <<1, 1>>
                ELSE ByPrecedence(cp.kernel_h, cp.kernel_w, cp.kernel_size)

\* a layer with no kernel attribute at all, a pad of one entry and a
\* stride_w has been parsed
C18_Witness ==
    /\ ret.fn = "_parse_conv_params"
    /\ Unset(call.conv_params.kernel_h, call.conv_params.kernel_w,
             call.conv_params.kernel_size)
    /\ ret.params["kernel_size"] = <<1, 1>>
    /\ call.conv_params.pad = <<3>>
    /\ call.conv_params.stride_w = 2

\* the offset of the k-th cropped axis: 0 for an empty offset list, the one
\* offset for a list of one, the k-th offset otherwise
OffsetOf(k) ==
    IF call.offset = <<>> THEN 0
    ELSE IF Len(call.offset) = 1 THEN call.offset[1]
    ELSE call.offset[k]

\* C20: Crop with the inputs A and B.  An input count other than 2 fails
\* before any lookup.  For A and B of equal static shape the result is the
\* expression of A itself.  Otherwise an offset list whose length is not 0,
\* 1 or the number of cropped axes fails (the check on the offsets), and
\* else the window of axis i is [offset_i, offset_i + B.shape[i]) at or
\* after the start axis and [0, A.shape[i]) before it, an empty offset list
\* standing for zeros and a single offset for all cropped axes.
C20_CropWindow ==
    ret.fn = "crop" =>
        /\ Len(call.inputs) # 2 =>
              /\ ret.err = "AssertionError"
              /\ ret.msg = "Need two inputs of Crop layer"
              /\ ret.looked = <<>>
        /\ (/\ BothBound
            /\ Len(call.tab[call.inputs[1]]) = Len(call.tab[call.inputs[2]])
            /\ call.axis <= Len(call.tab[call.inputs[1]])) =>
              LET A == call.tab[call.inputs[1]]
                  B == call.tab[call.inputs[2]]
                  cropped == Len(A) - call.axis
              IN  IF A = B
                  THEN ret.err = "" /\ ret.out = <<"var", call.inputs[1]>>
                  ELSE IF Len(call.offset) \notin {0, 1, cropped}
                  THEN /\ ret.err = "Exception"
                       /\ ret.msg = "No matching the number between axis and offset!"
                  ELSE /\ ret.err = ""
                       /\ ret.out[1] = "strided_slice"
                       /\ ret.out[2] = <<"var", call.inputs[1]>>
                       /\ DOMAIN ret.out[3] = DOMAIN A
                       /\ DOMAIN ret.out[4] = DOMAIN A
                       /\ \A i \in DOMAIN A :
                             IF i > call.axis
                             THEN /\ ret.out[3][i] = OffsetOf(i - call.axis)
                                  /\ ret.out[4][i] = OffsetOf(i - call.axis) + B[i]
                             ELSE /\ ret.out[3][i] = 0
                                  /\ ret.out[4][i] = A[i]

\* A of shape [3,3] is cropped to B of shape [2,2] from axis 0 on, with the
\* single offset 1 used for both axes
C20_Witness ==
    /\ ret.fn = "crop"
    /\ ret.err = ""
    /\ call.inputs = <<"x", "y">>
    /\ call.tab["x"] = <<3, 3>>
    /\ call.tab["y"] = <<2, 2>>
    /\ call.axis = 0
    /\ call.offset = <<1>>
    /\ ret.out[3] = <<1, 1>>
    /\ ret.out[4] = <<3, 3>>

\* the names of the BatchNorm layers whose following Scale op_fuse dropped
FusedBatchNorms == {predict_layer[s - 1].name : s \in DroppedScales}

\* C21: op_fuse only records.  Right after it the expression table holds
\* nothing but the model inputs and no constant exists; new_bn has an entry
\* for a BatchNorm name exactly when that BatchNorm was fused with the Scale
\* that follows it; and batch_norm takes the cached record instead of the
\* blobs exactly for those layers.
C21_FusionOnlyRecords ==
    Fused =>
        /\ (pc = "convert" /\ idx = 1) =>
              /\ nconst = 0
              /\ \A t \in DOMAIN exp_tab : exp_tab[t].src = "var"
        /\ DOMAIN new_bn = FusedBatchNorms
        /\ \A k \in DOMAIN conv_layers :
              Emitted[k].type = "BatchNorm" =>
                  (BatchNormSource(Emitted[k], new_bn) = "new_bn"
                      <=> Emitted[k].name \in FusedBatchNorms)

\* a translation has ended in which one BatchNorm was converted from the
\* cached record and another one from its blobs
C21_Witness ==
    /\ pc = "done"
    /\ \E j, k \in DOMAIN conv_layers :
          /\ Emitted[j].type = "BatchNorm"
          /\ Emitted[k].type = "BatchNorm"
          /\ Emitted[j].name \in DOMAIN new_bn
          /\ Emitted[k].name \notin DOMAIN new_bn
          /\ {Emitted[j].name, Emitted[k].name} \subseteq Range(invoked)

\* C22: every kind for which a conversion routine exists, Embed included, is a
\* key of convert_map with that routine as its value, so a list made only of
\* such kinds passes check_unsupported_ops; and every kind that passes the
\* check, other than Input, is dispatched to a routine that is not null.
C22_RegistryComplete ==
    LET kinds == {call.layers[i].type : i \in DOMAIN call.layers} IN
    /\ (ret.fn = "check_unsupported_ops" /\ kinds \subseteq ConvertibleKinds) =>
          /\ ret.err = ""
          /\ \A k \in kinds : k \in RoutineKinds[convert_map[k]]
    /\ ret.fn = "convert_op_to_relay" =>
          /\ ret.err = ""
          /\ Len(ret.routines) = Cardinality({i \in DOMAIN call.layers :
                                                call.layers[i].type # "Input"})
          /\ \A k \in DOMAIN ret.routines : ret.routines[k] \in DOMAIN RoutineKinds

\* the input names and the output names of every layer
LayerNames(layers) ==
    [i \in DOMAIN layers |-> [bottom |-> layers[i].bottom, top |-> layers[i].top]]

\* C23: _rebuild_layers is idempotent on layer names: applied a second time,
\* to its own output, it leaves the input names and the output names of every
\* layer unchanged.
C23_RebuildIdempotent ==
    (ret.fn = "_rebuild_layers" /\ ret.calls = 2) =>
        LayerNames(ret.layers) = LayerNames(ret.given)

\* the second call of from_caffe has ended
SecondCallEnded == ret.fn = "from_caffe" /\ pc \in {"done", "error"}

\* C24: translation is repeatable: called twice in sequence with the same
\* parameters and the same layer list object, from_caffe returns the same list
\* of output names both times, in-place layers and fused BatchNorm+Scale pairs
\* included.
C24_Repeatable ==
    SecondCallEnded => (pc = "done" /\ new_outputs = ret.new_outputs)

\* C25: converting a Python layer whose embedded layer name is not the proposal
\* layer ends in an OpNotImplemented (UnsupportedOperator) error that names the
\* embedded layer, and no output of the layer is bound.
C25_PythonUnsupported ==
    (ret.fn = "python_layer" /\ Lower[call.layer] # "proposallayer") =>
        /\ ret.err = "UnsupportedOperator"
        /\ ret.msg = PythonMessage(Lower[call.layer])
        /\ ret.out = <<>>

====
